---- MODULE Spec2Model ----
(***************************************************************************)
(* Model of modules/dnn/src/layers/fully_connected_layer.cpp:              *)
(* FullyConnectedLayerImpl (the constructor that prepares the weight and   *)
(* bias matrices, and forward) and FullConnected, the ParallelLoopBody     *)
(* that computes the stripes of one output matrix.                         *)
(*                                                                         *)
(* A cv::Mat is a record [dims, rows, cols, step, data]: step is the row   *)
(* stride in elements (step1()), data the buffer, indexed from 0, of       *)
(* rows*step elements.  Float values are modelled by integers; NaN is the  *)
(* one non-finite value, absorbing for + and * as in IEEE arithmetic.      *)
(* The kernels modelled are the two of this file, the CV_SIMD128 loop and  *)
(* the scalar loop; fastGEMM1T_avx2 is defined elsewhere.                  *)
(***************************************************************************)
EXTENDS Integers, Sequences, FiniteSets, TLC

\* enum { VEC_ALIGN = 8 }
VEC_ALIGN == 8

\* Bounds of the model.
MaxOut == 5
MaxSamples == 2
MaxVec == 3
MaxStripes == 4
MaxInner == 10

\* The data generators the initial states draw matrices from.
Seeds == {1, 2}

\* The non-finite float (a NaN or an infinity), outside every finite value.
NaN == 0 - 1000
\* An output cell the kernel has not stored to.
Unwritten == 0 - 2000
\* The outcome "the division traps" of an integer division by zero.
Trap == 0 - 1

Min(a, b) == IF a <= b THEN a ELSE b

\* float multiplication and addition: x * NaN = NaN also for x = 0.
FMul(a, b) == IF a = NaN \/ b = NaN THEN NaN ELSE a * b
FAdd(a, b) == IF a = NaN \/ b = NaN THEN NaN ELSE a + b

RECURSIVE FSum(_, _)
\* f[0] + f[1] + ... + f[n-1], accumulated left to right.
FSum(f, n) == IF n = 0 THEN 0 ELSE FAdd(FSum(f, n - 1), f[n - 1])

(***************************************************************************)
(* cv::Mat                                                                 *)
(***************************************************************************)
MakeMat(rows, cols, data) ==
    [dims |-> 2, rows |-> rows, cols |-> cols, step |-> cols, data |-> data]

\* Mat(): no data, dims = 0.
EmptyMat == [dims |-> 0, rows |-> 0, cols |-> 0, step |-> 0, data |-> << >>]

Total(m) == m.rows * m.cols

IsContinuous(m) == m.rows <= 1 \/ m.step = m.cols

At(m, i, k) == m.data[i * m.step + k]

\* The element with index idx of a generated matrix: values in -3 .. 3, with
\* period 7 in idx.
GenVal(seed, idx) == ((seed * idx * idx + idx + seed) % 7) - 3

GenMat(rows, cols, seed) ==
    MakeMat(rows, cols, [idx \in 0 .. (rows * cols - 1) |-> GenVal(seed, idx)])

\* Mat::zeros(rows, cols, type)
Zeros(rows, cols) == MakeMat(rows, cols, [idx \in 0 .. (rows * cols - 1) |-> 0])

\* Mat::reshape(1, new_rows) of a single-channel matrix: [ok, mat]; it throws
\* (ok = FALSE) when the elements cannot be laid out in new_rows rows, and
\* new_rows = 0 keeps the rows.
Reshape(m, new_rows) ==
    IF new_rows # 0 /\ new_rows # m.rows
    THEN IF \/ ~IsContinuous(m)
            \/ new_rows < 0
            \/ new_rows > m.rows * m.cols
            \/ ((m.rows * m.cols) \div new_rows) * new_rows # m.rows * m.cols
         THEN [ok |-> FALSE, mat |-> EmptyMat]
         ELSE [ok |-> TRUE,
               mat |-> [dims |-> 2, rows |-> new_rows,
                        cols |-> (m.rows * m.cols) \div new_rows,
                        step |-> (m.rows * m.cols) \div new_rows,
                        data |-> m.data]]
    ELSE [ok |-> TRUE, mat |-> m]

\* alignSize(sz, n): the smallest multiple of n that is >= sz.
AlignSize(sz, n) == ((sz + n - 1) \div n) * n

(***************************************************************************)
(* FullyConnectedLayerImpl::FullyConnectedLayerImpl                        *)
(***************************************************************************)
\* (int)blobs[0].total() / numOutput: the quotient, and for numOutput = 0
\* (undefined behaviour) either a trap or the quotient 0 of targets whose
\* divide instruction does not trap.
InnerSizes(total, nOut) == IF nOut # 0 THEN {total \div nOut} ELSE {Trap, 0}

\* The weights padded to rows of vecsize_aligned elements, the padding zero;
\* the reshaped blob itself when vecsize is a multiple of VEC_ALIGN.
PadWeightsNoZero(m) ==
    IF m.cols % VEC_ALIGN # 0
    THEN LET vecsize_aligned == AlignSize(m.cols, VEC_ALIGN) IN
         [dims |-> 2, rows |-> m.rows, cols |-> m.cols, step |-> vecsize_aligned,
          data |-> [idx \in 0 .. (m.rows * vecsize_aligned - 1) |->
                      IF idx % vecsize_aligned < m.cols
                      THEN At(m, idx \div vecsize_aligned, idx % vecsize_aligned)
                      ELSE NaN]]
    ELSE m
PadWeights(m) ==
    IF m.cols % VEC_ALIGN # 0
    THEN LET vecsize_aligned == AlignSize(m.cols, VEC_ALIGN) IN
         [dims |-> 2, rows |-> m.rows, cols |-> m.cols, step |-> vecsize_aligned,
          data |-> [idx \in 0 .. (m.rows * vecsize_aligned - 1) |->
                      IF idx % vecsize_aligned < m.cols
                      THEN At(m, idx \div vecsize_aligned, idx % vecsize_aligned)
                      ELSE 0]]
    ELSE m

\* The two CV_Asserts on the blobs' shapes (lines 68 and 69).
ShapeAsserts(nOut, biasTerm, bl, innerSize) ==
    /\ bl[1].dims >= 2
    /\ innerSize * nOut = Total(bl[1])
    /\ ~biasTerm \/ (Len(bl) = 2 /\ nOut = Total(bl[2]))

\* biasMat: blobs[1] as one row, or a zero row of numOutput elements.
BiasOfEmpty(nOut, biasTerm, bl) ==
    IF biasTerm THEN Reshape(bl[2], 1) ELSE [ok |-> TRUE, mat |-> EmptyMat]
BiasOf(nOut, biasTerm, bl) ==
    IF biasTerm THEN Reshape(bl[2], 1) ELSE [ok |-> TRUE, mat |-> Zeros(1, nOut)]

\* The constructor as a function of its inputs and of the quotient innerSize:
\* [status, weightsMat, biasMat].
Ctor(nOut, biasTerm, bl, innerSize) ==
    LET failed == [status |-> "ctor_failed", weightsMat |-> EmptyMat, biasMat |-> EmptyMat] IN
    IF ~(1 <= Len(bl) /\ Len(bl) <= 2) THEN failed
    ELSE IF innerSize = Trap
    THEN [status |-> "crashed", weightsMat |-> EmptyMat, biasMat |-> EmptyMat]
    ELSE IF ~ShapeAsserts(nOut, biasTerm, bl, innerSize) THEN failed
    ELSE LET w == Reshape(bl[1], nOut) IN
         IF ~w.ok THEN failed
         ELSE LET b == BiasOf(nOut, biasTerm, bl) IN
              IF ~b.ok THEN failed
              ELSE [status |-> "ready", weightsMat |-> PadWeights(w.mat), biasMat |-> b.mat]

VARIABLES
    pc,          \* "new", "ctor_failed", "crashed", "ready", "loop", "running", "fwd_failed", "done"
    numOutput,   \* params "num_output"
    bias,        \* params "bias_term"
    blobs,       \* the layer's blobs as supplied: <<weights>> or <<weights, bias>>
    simd,        \* whether the build has CV_SIMD128
    weightsMat,
    biasMat,
    input,       \* forward's inputs, each already a matrix of outerSize rows
    output,      \* forward's caller-allocated outputs
    i,           \* forward's loop index (from 1)
    nstripes,    \* getNumThreads() as read for each input processed so far
    tasks,       \* the body invocations parallel_for_ made for this input
    writes       \* per output, per cell: the stores made to it

vars == <<pc, numOutput, bias, blobs, simd, weightsMat, biasMat, input, output,
          i, nstripes, tasks, writes>>

layerVars == <<numOutput, bias, blobs, simd>>
fwdVars == <<input, output, i, nstripes, tasks, writes>>

Construct ==
    /\ pc = "new"
    /\ \E innerSize \in InnerSizes(IF Len(blobs) >= 1 THEN Total(blobs[1]) ELSE 0, numOutput) :
         LET c == Ctor(numOutput, bias, blobs, innerSize) IN
         /\ pc' = c.status
         /\ weightsMat' = c.weightsMat
         /\ biasMat' = c.biasMat
    /\ UNCHANGED <<layerVars, fwdVars>>

(***************************************************************************)
(* FullConnected: the constructor's CV_Assert and operator()               *)
(***************************************************************************)
\* CV_Assert of FullConnected::FullConnected; every matrix is CV_32F.
FullConnectedAssert(srcMat, weights, bm, dstMat) ==
    /\ srcMat.dims = 2 /\ srcMat.cols = weights.cols
    /\ dstMat.rows = srcMat.rows /\ dstMat.cols = weights.rows
    /\ (Total(bm) = 0 \/ (IsContinuous(bm) /\ Total(bm) = dstMat.cols))

\* stripeSize = (total + nstripes - 1)/nstripes
StripeSize(total, n) == (total + n - 1) \div n

\* stripeStart = r.start*stripeSize
StripeStart(r, total, n) == r[1] * StripeSize(total, n)

\* stripeEnd = r.end == nstripes ? total : std::min(r.end*stripeSize, total)
StripeEndNoClamp(r, total, n) ==
    IF r[2] = n THEN total ELSE r[2] * StripeSize(total, n)
StripeEnd(r, total, n) ==
    IF r[2] = n THEN total ELSE Min(r[2] * StripeSize(total, n), total)

\* nw = std::min(nw0 - delta, (int)(stripeEnd - ofs))
RunLengthToRowEnd(nw0, delta, stripeEnd, ofs) == nw0 - delta
RunLength(nw0, delta, stripeEnd, ofs) == Min(nw0 - delta, stripeEnd - ofs)

\* The values of i of the CV_SIMD128 loop: for( ; i <= nw - 4; i += 4 ).
SimdStartsToEnd(nw, useSimd) ==
    IF useSimd THEN {b \in 0 .. (nw - 1) : b % 4 = 0} ELSE {}
SimdStarts(nw, useSimd) ==
    IF useSimd THEN {b \in 0 .. (nw - 1) : b % 4 = 0 /\ b <= nw - 4} ELSE {}

\* The columns v_store(dptr + i, s) stores to, relative to dptr.
SimdCols(nw, useSimd) == UNION {{b, b + 1, b + 2, b + 3} : b \in SimdStarts(nw, useSimd)}

\* The values of i of the scalar loop, which goes on from the i the 4-wide loop left.
ScalarCols(nw, useSimd) == (4 * Cardinality(SimdStarts(nw, useSimd))) .. (nw - 1)

\* The columns the 4-wide loop loads of the input row and of each weight row:
\* for( k = 0; k < vecsize; k += 4 ) v_load(sptr + k), v_load_aligned(wptr + k).
SimdLoadCols(vecsize) ==
    UNION {{k, k + 1, k + 2, k + 3} : k \in {k \in 0 .. (vecsize - 1) : k % 4 = 0}}

\* The columns the scalar loop loads: for( k = 0; k < vecsize; k++ ).
ScalarLoadCols(vecsize) == 0 .. (vecsize - 1)

\* A load of element idx of a buffer; past the buffer's end it yields g,
\* whatever the memory there holds.
Load(data, idx, g) == IF idx \in DOMAIN data THEN data[idx] ELSE g

\* Whether the 4-wide loop's loads of input row s reach past the buffer of srcMat.
SimdLoadsPastBuffer(srcMat, s) ==
    \E c \in SimdLoadCols(srcMat.cols) : s * srcMat.step + c \notin DOMAIN srcMat.data

\* What memory past a buffer may hold: a finite float, or a NaN or an infinity.
Garbage == {7, NaN}

\* The dot product of input row s and weight row j over the columns cols.
Dot(srcMat, weights, s, j, ncols, g) ==
    FSum([c \in 0 .. (ncols - 1) |->
            FMul(Load(srcMat.data, s * srcMat.step + c, g),
                 Load(weights.data, j * weights.step + c, g))], ncols)

\* The value stored for output column j of sample s: by the 4-wide loop
\* (v_reduce_sum4 of the four lanes' sums, plus the bias), or by the scalar
\* loop (s0 = biasptr[i]; s0 += v*wptr[k]).
Cell(srcMat, weights, bm, s, j, fourWide, g) ==
    FAdd(Load(bm.data, j, g),
         Dot(srcMat, weights, s, j,
             IF fourWide THEN Cardinality(SimdLoadCols(srcMat.cols))
             ELSE Cardinality(ScalarLoadCols(srcMat.cols)), g))

\* srcMat = input[i]->reshape(1, outerSize), dstMat = output[i].reshape(1, outerSize),
\* with outerSize the rows of input[0].
SrcMat == Reshape(input[i], input[1].rows)
DstMat == Reshape(output[i], input[1].rows)

\* A body invocation parallel_for_ has not started yet.
NewTask(r) ==
    [r |-> r, st |-> "pending", stripeStart |-> 0, stripeEnd |-> 0, ofs |-> 0,
     sampleIdx |-> 0, delta |-> 0, nw |-> 0, iters |-> 0,
     written |-> {}, srcCols |-> {}, wCols |-> {}, wRows |-> {}, biasIdx |-> {}]

\* The ways parallel_for_ cuts Range(0, n) into consecutive ranges, each one
\* body invocation: the sets of cut points.
Splits(n) == SUBSET (1 .. (n - 1))

RECURSIVE TasksOf(_, _, _)
\* The invocations of the cut points cuts, from stripe lo on.
TasksOf(lo, n, cuts) ==
    IF lo >= n THEN << >>
    ELSE LET hi == IF \E c \in cuts : c > lo
                   THEN CHOOSE c \in cuts : c > lo /\ \A d \in cuts : d > lo => c <= d
                   ELSE n
         IN <<NewTask(<<lo, hi>>)>> \o TasksOf(hi, n, cuts)

\* forward() is called.
Forward ==
    /\ pc = "ready"
    /\ Len(input) >= 1
    /\ pc' = "loop"
    /\ i' = 1
    /\ UNCHANGED <<layerVars, weightsMat, biasMat, input, output, nstripes, tasks, writes>>

\* One pass of forward's loop up to the call of parallel_for_, or the return.
Iterate ==
    /\ pc = "loop"
    /\ IF i > Len(input)
       THEN pc' = "done" /\ UNCHANGED <<nstripes, tasks>>
       ELSE IF ~SrcMat.ok \/ ~DstMat.ok
       THEN pc' = "fwd_failed" /\ UNCHANGED <<nstripes, tasks>>
       ELSE \E n \in 1 .. MaxStripes :
              /\ nstripes' = Append(nstripes, n)
              /\ IF FullConnectedAssert(SrcMat.mat, weightsMat, biasMat, DstMat.mat)
                 THEN \E cuts \in Splits(n) :
                        /\ tasks' = TasksOf(0, n, cuts)
                        /\ pc' = "running"
                 ELSE pc' = "fwd_failed" /\ tasks' = << >>
    /\ UNCHANGED <<layerVars, weightsMat, biasMat, input, output, i, writes>>

\* The stripe of invocation T of operator(): [stripeStart, stripeEnd, ofs], ofs
\* being stripeStart before the first pass of the loop.
Stripe(T, srcMat, weights, n) ==
    LET total == srcMat.rows * weights.rows
        stripeStart == StripeStart(T.r, total, n)
    IN [stripeStart |-> stripeStart,
        stripeEnd |-> StripeEnd(T.r, total, n),
        ofs |-> IF T.st = "pending" THEN stripeStart ELSE T.ofs]

\* Whether the next pass of invocation T loads input elements past srcMat's buffer.
PassLoadsPastBuffer(T, srcMat, weights, n, useSimd) ==
    LET S == Stripe(T, srcMat, weights, n)
        nw0 == weights.rows
        sampleIdx == S.ofs \div nw0
        delta == S.ofs - sampleIdx * nw0
    IN /\ S.ofs < S.stripeEnd
       /\ SimdCols(RunLength(nw0, delta, S.stripeEnd, S.ofs), useSimd) # {}
       /\ SimdLoadsPastBuffer(srcMat, sampleIdx)

\* FullConnected::operator()(r), one pass of its loop over ofs: a run of nw output
\* columns of one sample.  The first pass follows the computation of the
\* stripe's bounds; an invocation whose stripe holds no offset returns at once.
\* data and stores are dstMat's buffer and the count of stores to each of its
\* cells; g is what the loads past a buffer yield.
Pass(T, srcMat, dstMat, weights, bm, n, useSimd, data, stores, g) ==
    LET S == Stripe(T, srcMat, weights, n)
        ofs == S.ofs
        stripeEnd == S.stripeEnd
    IN IF ~(ofs < stripeEnd)
       THEN [task |-> [T EXCEPT !.st = "returned", !.stripeStart = S.stripeStart,
                                !.stripeEnd = stripeEnd, !.ofs = ofs],
             data |-> data, stores |-> stores]
       ELSE LET nw0 == weights.rows
                sampleIdx == ofs \div nw0
                delta == ofs - sampleIdx * nw0
                nw == RunLength(nw0, delta, stripeEnd, ofs)
                four == SimdCols(nw, useSimd)
                one == ScalarCols(nw, useSimd)
                stored == four \cup one
                dptr == sampleIdx * dstMat.step + delta
                loaded == (IF four # {} THEN SimdLoadCols(srcMat.cols) ELSE {})
                          \cup (IF one # {} THEN ScalarLoadCols(srcMat.cols) ELSE {})
                val == [c \in stored |->
                          Cell(srcMat, weights, bm, sampleIdx, delta + c, c \in four, g)]
                times == [c \in stored |-> (IF c \in four THEN 1 ELSE 0)
                                          + (IF c \in one THEN 1 ELSE 0)]
            IN [task |-> [T EXCEPT !.st = IF ofs + nw < stripeEnd THEN "running" ELSE "returned",
                                   !.stripeStart = S.stripeStart,
                                   !.stripeEnd = stripeEnd,
                                   !.ofs = ofs + nw,
                                   !.sampleIdx = sampleIdx,
                                   !.delta = delta,
                                   !.nw = nw,
                                   !.iters = @ + 1,
                                   !.written = @ \cup {dptr + c : c \in stored},
                                   !.srcCols = loaded,
                                   !.wCols = loaded,
                                   !.wRows = {delta + c : c \in stored},
                                   !.biasIdx = {delta + c : c \in stored}],
                data |-> [x \in DOMAIN data |->
                            IF (x - dptr) \in stored THEN val[x - dptr] ELSE data[x]],
                stores |-> [x \in DOMAIN stores |->
                              IF (x - dptr) \in stored THEN stores[x] + times[x - dptr]
                              ELSE stores[x]]]

\* Invocation t of the body runs one pass.
Body(t) ==
    /\ pc = "running"
    /\ tasks[t].st # "returned"
    /\ \E g \in IF PassLoadsPastBuffer(tasks[t], SrcMat.mat, weightsMat, nstripes[i], simd)
                THEN Garbage ELSE {0} :
         \E p \in {Pass(tasks[t], SrcMat.mat, DstMat.mat, weightsMat, biasMat, nstripes[i],
                        simd, output[i].data, writes[i], g)} :
            /\ tasks' = [tasks EXCEPT ![t] = p.task]
            /\ output' = [output EXCEPT ![i].data = p.data]
            /\ writes' = [writes EXCEPT ![i] = p.stores]
    /\ UNCHANGED <<pc, layerVars, weightsMat, biasMat, input, i, nstripes>>

\* parallel_for_ returns once every invocation has; forward goes to the next input.
Join ==
    /\ pc = "running"
    /\ \A t \in 1 .. Len(tasks) : tasks[t].st = "returned"
    /\ pc' = "loop"
    /\ i' = i + 1
    /\ UNCHANGED <<layerVars, weightsMat, biasMat, input, output, nstripes, tasks, writes>>

(***************************************************************************)
(* Weight preparation alone: every shape of blobs, valid or not.           *)
(***************************************************************************)
\* The weight blobs: Mat(), and every rows x cols matrix up to the bounds.
WeightBlobs ==
    {EmptyMat} \cup
    {GenMat(r, c, s) : r \in 0 .. MaxOut, c \in 0 .. MaxInner, s \in Seeds}

\* The bias blobs: one row of 0 .. MaxOut elements, all zero or generated.
BiasBlobs ==
    {GenMat(1, n, 1) : n \in 0 .. MaxOut} \cup {Zeros(1, n) : n \in 0 .. MaxOut}

\* The blobs setParamsFrom hands over: the weights, or the weights and a bias.
PrepBlobs ==
    {<<w>> : w \in WeightBlobs} \cup {<<w, b>> : w \in WeightBlobs, b \in BiasBlobs}

NoForward ==
    /\ input = << >>
    /\ output = << >>
    /\ i = 0
    /\ nstripes = << >>
    /\ tasks = << >>
    /\ writes = << >>

InitPrep ==
    /\ pc = "new"
    /\ numOutput \in 0 .. MaxOut
    /\ bias \in BOOLEAN
    /\ blobs \in PrepBlobs
    /\ simd = TRUE
    /\ weightsMat = EmptyMat
    /\ biasMat = EmptyMat
    /\ NoForward

SpecPrep == InitPrep /\ [][Construct]_vars

(***************************************************************************)
(* forward on a constructed layer                                          *)
(***************************************************************************)
\* The lengths of the input vectors: 1 .. MaxVec, and the two lengths, 4 and
\* VEC_ALIGN, at which the 4-wide loop and the padding have nothing to add.
VecSizes == (1 .. MaxVec) \cup {4, VEC_ALIGN}

\* A caller-allocated output: no cell stored to yet.
Alloc(rows, cols) == MakeMat(rows, cols, [idx \in 0 .. (rows * cols - 1) |-> Unwritten])

NoStores(rows, cols) == [idx \in 0 .. (rows * cols - 1) |-> 0]

\* An input/output pair of a layer of nOut outputs and vectors of vs
\* elements: of the right shapes, or with one shape off by one.
Pairs(ns, vs, nOut) ==
    {[in |-> GenMat(ns, vs, 2), out |-> Alloc(ns, nOut)],
     [in |-> GenMat(ns, vs + 1, 2), out |-> Alloc(ns, nOut)],
     [in |-> GenMat(ns, vs, 2), out |-> Alloc(ns + 1, nOut)],
     [in |-> GenMat(ns, vs, 2), out |-> Alloc(ns, nOut + 1)]}

\* The blobs of a layer: with "bias_term", weights and bias; without it,
\* the weights alone or with a bias blob that is not used.
LayerBlobs(nOut, vs, biasTerm) ==
    IF biasTerm THEN {<<GenMat(nOut, vs, 1), GenMat(1, nOut, 3)>>}
    ELSE {<<GenMat(nOut, vs, 1)>>, <<GenMat(nOut, vs, 1), GenMat(1, nOut, 3)>>}

\* The spec's scenario: weights [[1,0],[0,1],[1,1]], bias [0,0,0], input [2,3].
ScenarioWeights == MakeMat(3, 2, [idx \in 0 .. 5 |-> IF idx \in {0, 3, 4, 5} THEN 1 ELSE 0])
ScenarioInput == MakeMat(1, 2, [idx \in 0 .. 1 |-> idx + 2])

NotConstructed ==
    /\ pc = "new"
    /\ weightsMat = EmptyMat
    /\ biasMat = EmptyMat
    /\ i = 0
    /\ nstripes = << >>
    /\ tasks = << >>

\* One input per call.
Init ==
    /\ NotConstructed
    /\ simd \in BOOLEAN
    /\ \/ \E nOut \in 1 .. MaxOut, vs \in VecSizes, ns \in 0 .. MaxSamples :
            /\ numOutput = nOut
            /\ bias \in BOOLEAN
            /\ blobs \in LayerBlobs(nOut, vs, bias)
            /\ \E p \in Pairs(ns, vs, nOut) :
                 /\ input = <<p.in>>
                 /\ output = <<p.out>>
                 /\ writes = <<NoStores(p.out.rows, p.out.cols)>>
       \/ /\ numOutput = 3
          /\ bias = TRUE
          /\ blobs = <<ScenarioWeights, Zeros(1, 3)>>
          /\ input = <<ScenarioInput>>
          /\ output = <<Alloc(1, 3)>>
          /\ writes = <<NoStores(1, 3)>>

\* Two inputs per call: the second one the first again, or of a wrong shape.
InitBatch ==
    /\ NotConstructed
    /\ simd \in BOOLEAN
    /\ \E nOut \in 1 .. MaxOut, vs \in VecSizes, ns \in 1 .. MaxSamples :
         /\ numOutput = nOut
         /\ bias \in BOOLEAN
         /\ blobs = IF bias THEN <<GenMat(nOut, vs, 1), GenMat(1, nOut, 3)>>
                    ELSE <<GenMat(nOut, vs, 1)>>
         /\ \E p \in Pairs(ns, vs, nOut) :
              /\ input = <<GenMat(ns, vs, 2), p.in>>
              /\ output = <<Alloc(ns, nOut), p.out>>
              /\ writes = <<NoStores(ns, nOut), NoStores(p.out.rows, p.out.cols)>>

Next ==
    \/ Construct
    \/ Forward
    \/ Iterate
    \/ \E t \in 1 .. Len(tasks) : Body(t)
    \/ Join

Spec == Init /\ [][Next]_vars

SpecBatch == InitBatch /\ [][Next]_vars

(***************************************************************************)
(* Properties                                                              *)
(***************************************************************************)
\* The rows of input o as forward reshapes them.
SrcOf(o) == Reshape(input[o], input[1].rows).mat

\* bias[j] + sum over k of src[s][k] * W[j][k], from the blobs as supplied.
Affine(o, s, j) ==
    LET innerSize == Total(blobs[1]) \div numOutput IN
    (IF bias THEN blobs[2].data[j] ELSE 0)
    + FSum([k \in 0 .. (innerSize - 1) |->
              input[o].data[s * innerSize + k] * blobs[1].data[j * innerSize + k]],
           innerSize)

\* The flattened output offsets of the stripe of an invocation that has started.
Offsets(T) == {x \in 0 .. (T.stripeEnd - 1) : x >= T.stripeStart}

Started == {t \in 1 .. Len(tasks) : tasks[t].st # "pending"}

AllReturned == \A t \in 1 .. Len(tasks) : tasks[t].st = "returned"

\* C1: when forward has returned, every output cell (s, j) of every input
\* holds bias[j] + sum over k of src[s][k] * W[j][k].
C1_ForwardIsAffine ==
    pc = "done" =>
        \A o \in 1 .. Len(output) : \A x \in DOMAIN output[o].data :
            output[o].data[x] = Affine(o, x \div numOutput, x % numOutput)

\* C2: the stripes of the invocations parallel_for_ makes, whatever the split,
\* lie in [0, total), are pairwise disjoint and together are [0, total); an
\* invocation whose stripe starts at or past total runs no pass; and 4 stripes
\* over 1 sample of 3 outputs give exactly 3 non-empty stripes.
C2_StripesPartition ==
    pc = "running" =>
        LET total == SrcMat.mat.rows * weightsMat.rows IN
        /\ \A t \in Started : Offsets(tasks[t]) \subseteq 0 .. (total - 1)
        /\ \A t, u \in Started : t # u => Offsets(tasks[t]) \cap Offsets(tasks[u]) = {}
        /\ Started = 1 .. Len(tasks) =>
               UNION {Offsets(tasks[t]) : t \in Started} = 0 .. (total - 1)
        /\ \A t \in Started : tasks[t].stripeStart >= total => tasks[t].iters = 0
        /\ (nstripes[i] = 4 /\ SrcMat.mat.rows = 1 /\ weightsMat.rows = 3
              /\ Len(tasks) = 4 /\ Started = 1 .. 4) =>
               Cardinality({t \in Started : Offsets(tasks[t]) # {}}) = 3

\* C2 witness: 4 stripes, one invocation each, over 1 sample of 3 outputs, all
\* returned, three of them after one pass and one after none.
C2_Witness ==
    /\ pc = "running" /\ AllReturned
    /\ nstripes[i] = 4 /\ Len(tasks) = 4
    /\ SrcMat.mat.rows = 1 /\ weightsMat.rows = 3
    /\ Cardinality({t \in 1 .. 4 : tasks[t].iters = 1}) = 3
    /\ Cardinality({t \in 1 .. 4 : tasks[t].iters = 0}) = 1

\* C3: under every interleaving of the invocations, each stores only to the
\* cells of its own stripe, no two store to the same cell, no cell is stored to
\* twice, and when all have returned every cell has been stored to exactly once.
C3_WrittenOnce ==
    /\ pc = "running" =>
         /\ \A t \in 1 .. Len(tasks) : tasks[t].written \subseteq Offsets(tasks[t])
         /\ \A t, u \in 1 .. Len(tasks) :
                t # u => tasks[t].written \cap tasks[u].written = {}
         /\ \A x \in DOMAIN writes[i] :
                writes[i][x] = Cardinality({t \in 1 .. Len(tasks) : x \in tasks[t].written})
         /\ AllReturned => \A x \in DOMAIN writes[i] : writes[i][x] = 1
    /\ pc = "done" =>
         \A o \in 1 .. Len(writes) : \A x \in DOMAIN writes[o] : writes[o][x] = 1

\* C3 witness: one invocation is between two passes after a 4-wide store,
\* another has stored too, and a third has not started.
C3_Witness ==
    /\ pc = "running" /\ simd
    /\ \E t, u, v \in 1 .. Len(tasks) :
         /\ t # u
         /\ tasks[t].st = "running" /\ tasks[t].nw >= 4
         /\ tasks[u].iters >= 1
         /\ tasks[v].st = "pending"

\* C4: when forward fails on a batch, no cell of any output of the batch has
\* been stored to.
C4_FailsBeforeAnyStripe ==
    pc = "fwd_failed" =>
        \A o \in 1 .. Len(writes) : \A x \in DOMAIN writes[o] : writes[o][x] = 0

\* C5: the prepared weights have numOutput rows of innerSize columns at a row
\* stride that is the smallest multiple of VEC_ALIGN >= innerSize; each row
\* holds the blob's innerSize values and then zeros; innerSize 10 gives stride 16.
C5_WeightPreparation ==
    (pc = "ready" /\ numOutput >= 1 /\ Total(blobs[1]) >= numOutput) =>
        LET innerSize == Total(blobs[1]) \div numOutput
            stride == weightsMat.step
        IN /\ weightsMat.rows = numOutput /\ weightsMat.cols = innerSize
           /\ stride % VEC_ALIGN = 0 /\ stride >= innerSize /\ stride - VEC_ALIGN < innerSize
           /\ DOMAIN weightsMat.data = 0 .. (numOutput * stride - 1)
           /\ \A j \in 0 .. (numOutput - 1) : \A k \in 0 .. (stride - 1) :
                  weightsMat.data[j * stride + k] =
                      IF k < innerSize THEN blobs[1].data[j * innerSize + k] ELSE 0
           /\ innerSize = 10 => stride = 16

\* C5 witness: a blob of other rows than numOutput prepared to rows of 10
\* values and 6 zeros.
C5_Witness ==
    /\ pc = "ready" /\ numOutput >= 2
    /\ blobs[1].rows # numOutput
    /\ weightsMat.cols = 10 /\ weightsMat.step = 16

\* C6: two equal inputs processed with different stripe counts get equal outputs.
C6_StripeCountInvariance ==
    (pc = "done" /\ Len(input) = 2 /\ input[1] = input[2] /\ nstripes[1] # nstripes[2]) =>
        output[1].data = output[2].data

\* The shapes construction is to accept: the weights hold numOutput*innerSize
\* elements for a positive innerSize, and the bias, if enabled, numOutput.
ValidShapes ==
    /\ numOutput >= 1
    /\ \E innerSize \in 1 .. Total(blobs[1]) : Total(blobs[1]) = numOutput * innerSize
    /\ bias => (Len(blobs) = 2 /\ Total(blobs[2]) = numOutput)

\* C7: construction succeeds exactly for the valid shapes.
C7_ConstructionRejects ==
    pc \in {"ctor_failed", "crashed", "ready"} => (pc = "ready" <=> ValidShapes)

\* C8: the bias vector has as many elements as the weights have rows; without
\* "bias_term" it is numOutput zeros, the constructed layer is the one
\* constructed with "bias_term" from the same weights and an all-zero bias, and
\* every value forward stores is one the kernel computes with that zero bias.
C8_BiasDisabled ==
    pc \in {"ready", "loop", "running", "fwd_failed", "done"} =>
        /\ Total(biasMat) = weightsMat.rows
        /\ ~bias => biasMat = Zeros(1, numOutput)
        /\ (~bias /\ pc = "ready") =>
             LET enabled == Ctor(numOutput, TRUE, <<blobs[1], Zeros(1, numOutput)>>,
                                 Total(blobs[1]) \div numOutput)
             IN /\ enabled.status = "ready"
                /\ enabled.weightsMat = weightsMat /\ enabled.biasMat = biasMat
        /\ (~bias /\ pc # "ready") =>
             \A o \in 1 .. Len(output) : \A x \in DOMAIN writes[o] :
                 writes[o][x] >= 1 =>
                     \E fourWide \in BOOLEAN, g \in Garbage :
                         output[o].data[x] =
                             Cell(SrcOf(o), weightsMat, Zeros(1, numOutput),
                                  x \div numOutput, x % numOutput, fourWide, g)

\* C8 witness: forward has returned on a layer without "bias_term" whose blobs
\* still hold a bias, and has stored outputs.
C8_Witness ==
    /\ pc = "done" /\ ~bias /\ Len(blobs) = 2
    /\ output[1].rows >= 1
    /\ \A x \in DOMAIN writes[1] : writes[1][x] = 1

\* C9: every pass loads input columns in [0, vecsize), weight columns inside the
\* aligned row, and weight rows and bias elements in [0, numOutput).
C9_ReadsInBounds ==
    \A t \in 1 .. Len(tasks) :
        /\ tasks[t].srcCols \subseteq 0 .. (weightsMat.cols - 1)
        /\ tasks[t].wCols \subseteq 0 .. (weightsMat.step - 1)
        /\ tasks[t].wRows \subseteq 0 .. (numOutput - 1)
        /\ tasks[t].biasIdx \subseteq 0 .. (numOutput - 1)

\* After each pass: 0 <= delta < numOutput, nw >= 1, and the run lies inside one
\* row and inside the stripe.
RunInside ==
    pc = "running" =>
        \A t \in 1 .. Len(tasks) : tasks[t].iters >= 1 =>
            /\ 0 <= tasks[t].delta /\ tasks[t].delta < numOutput
            /\ tasks[t].nw >= 1
            /\ tasks[t].delta + tasks[t].nw <= numOutput
            /\ tasks[t].stripeStart <= tasks[t].ofs - tasks[t].nw
            /\ tasks[t].ofs <= tasks[t].stripeEnd
            /\ tasks[t].ofs - tasks[t].nw = tasks[t].sampleIdx * numOutput + tasks[t].delta

\* A pass moves ofs strictly forward.
OfsIncreases ==
    (pc = "running" /\ pc' = "running") =>
        \A t \in 1 .. Len(tasks) :
            (tasks[t].st = "running" /\ tasks'[t].iters > tasks[t].iters) =>
                tasks'[t].ofs > tasks[t].ofs

\* An invocation runs at most as many passes as its stripe holds offsets, and
\* is between two passes only with offsets of its stripe left.
PassesBounded ==
    pc = "running" =>
        \A t \in 1 .. Len(tasks) :
            /\ tasks[t].iters <= Cardinality(Offsets(tasks[t]))
            /\ tasks[t].st = "running" => tasks[t].ofs < tasks[t].stripeEnd

\* C10 as stated: the runs stay inside row and stripe, and every invocation
\* that has returned left its loop with ofs = stripeEnd.
C10_ExitsAtStripeEnd ==
    /\ RunInside
    /\ pc = "running" =>
         \A t \in 1 .. Len(tasks) :
             tasks[t].st = "returned" => tasks[t].ofs = tasks[t].stripeEnd

\* C10: the runs stay inside row and stripe, ofs strictly increases, an
\* invocation whose stripe starts at or before stripeEnd leaves its loop with
\* ofs = stripeEnd, one whose stripe starts past stripeEnd runs no pass and
\* leaves with ofs = stripeStart, and no invocation runs more passes than its
\* stripe holds offsets.
C10_Terminates ==
    /\ [](/\ RunInside
          /\ PassesBounded
          /\ pc = "running" =>
               \A t \in 1 .. Len(tasks) : tasks[t].st = "returned" =>
                   IF tasks[t].stripeStart <= tasks[t].stripeEnd
                   THEN tasks[t].ofs = tasks[t].stripeEnd
                   ELSE tasks[t].iters = 0 /\ tasks[t].ofs = tasks[t].stripeStart)
    /\ [][OfsIncreases]_vars

\* C10 witness: an invocation has returned after several passes, and another
\* without one, its stripe starting past stripeEnd.
C10_Witness ==
    /\ pc = "running"
    /\ \E t, u \in 1 .. Len(tasks) :
         /\ tasks[t].st = "returned" /\ tasks[t].iters >= 2
         /\ tasks[u].st = "returned" /\ tasks[u].iters = 0
         /\ tasks[u].stripeStart > tasks[u].stripeEnd

====
